---- MODULE Spec2Model ----
(***************************************************************************)
(* Register bookkeeping of cirq_ft/infra/gate_with_registers.py:           *)
(* Register, Registers, SelectionRegister, SelectionRegisters and          *)
(* GateWithRegisters, as a state machine over one collection object and    *)
(* the calls made on it.                                                   *)
(***************************************************************************)
EXTENDS Integers, Sequences, FiniteSets, TLC

\* ---------------------------------------------------------------- bounds
MaxRegs == 3
MaxBitsize == 2
MaxQubits == 5
MaxKwLen == 2
MaxSelBitsize == 1
MaxVal == 2

\* Register names the callers use; "x0" is "x" followed by an index.
RegNames == {"x", "x0", "y"}
\* Names of the handles callers pass in.
QidNames == {"a", "b"}

VARIABLES
    self,    \* the collection held: [ok, cls, _registers, _register_dict, iteration_lengths, _suffix_prod]
    call,    \* name of the last completed call
    args,    \* its arguments
    ret,     \* its return value
    error,   \* "" or the exception it raised
    origin,  \* [from, args]: the call whose result the last call consumed, and that call's arguments
    loop     \* the caller's nested loop over a SelectionRegisters: [active, idx, out, err]

vars == <<self, call, args, ret, error, origin, loop>>

\* ------------------------------------------------------- Python helpers
Min(a, b) == IF a < b THEN a ELSE b
Max(a, b) == IF a > b THEN a ELSE b

\* s[a:b] for 0 <= a, 0 <= b, step 1: indices clamp to len(s), never raise.
\* (Negative indices and other steps are not among the inputs drawn below.)
PySlice(s, a, b) ==
    LET lo == Min(a, Len(s))
        hi == Max(lo, Min(b, Len(s)))
    IN  [i \in 1..(hi - lo) |-> s[lo + i]]

\* s[::-1]
Reverse(s) == [i \in 1..Len(s) |-> s[Len(s) + 1 - i]]

\* {} and d[k] = v on a dict keyed by strings.
EmptyDict == [k \in {} |-> <<>>]
DictSet(d, k, v) == [x \in (DOMAIN d) \cup {k} |-> IF x = k THEN v ELSE d[x]]

\* str(i) for i >= 0.
Digit(i) == CASE i = 0 -> "0" [] i = 1 -> "1" [] i = 2 -> "2" [] i = 3 -> "3"
              [] i = 4 -> "4" [] i = 5 -> "5" [] i = 6 -> "6" [] i = 7 -> "7"
              [] i = 8 -> "8" [] i = 9 -> "9"
RECURSIVE Str(_)
Str(i) == IF i < 10 THEN Digit(i) ELSE Str(i \div 10) \o Digit(i % 10)

\* A value passed under a keyword: one bare handle, or a sequence of handles.
PyQid(q) == [kind |-> "Qid", qid |-> q]
PySeq(s) == [kind |-> "Sequence", items |-> s]
IsQid(v) == v.kind = "Qid"

\* ------------------------------------------------------------- Register
Register(name, bitsize) == [name |-> name, bitsize |-> bitsize]

\* ------------------------------------------------------------ Registers
\* {r.name: r for r in self._registers}: a later register replaces an earlier one.
RECURSIVE RegisterDictLoop(_, _, _)
RegisterDictLoop(registers, i, d) ==
    IF i > Len(registers) THEN d
    ELSE RegisterDictLoop(registers, i + 1, DictSet(d, registers[i].name, registers[i]))
RegisterDict(registers) == RegisterDictLoop(registers, 1, EmptyDict)

NoObject == [ok |-> FALSE, cls |-> "", _registers |-> <<>>, _register_dict |-> EmptyDict,
             iteration_lengths |-> <<>>, _suffix_prod |-> <<>>]

\* Variant of RegistersInit: the length comparison against the dict is left out.
RegistersInit_NoCheck(registers) ==
    [NoObject EXCEPT !.ok = TRUE, !.cls = "Registers", !._registers = registers,
                     !._register_dict = RegisterDict(registers)]
\* Registers.__init__: the object, or ok = FALSE when ValueError is raised.
RegistersInit(registers) ==
    LET d == RegisterDict(registers)
    IN  IF Len(registers) # Cardinality(DOMAIN d) THEN NoObject
        ELSE [NoObject EXCEPT !.ok = TRUE, !.cls = "Registers", !._registers = registers,
                              !._register_dict = d]

\* Registers.bitsize
RECURSIVE SumBitsize(_, _)
SumBitsize(registers, i) ==
    IF i > Len(registers) THEN 0 ELSE registers[i].bitsize + SumBitsize(registers, i + 1)
Bitsize(obj) == SumBitsize(obj._registers, 1)

\* Registers.build(**registers): kwargs is the ordered sequence of (name, size) items.
BuildRegisters(kwargs) == [i \in 1..Len(kwargs) |-> Register(kwargs[i][1], kwargs[i][2])]

\* Registers.split_qubits
RECURSIVE SplitLoop(_, _, _, _, _)
SplitLoop(registers, qubits, i, base, qubit_regs) ==
    IF i > Len(registers) THEN qubit_regs
    ELSE SplitLoop(registers, qubits, i + 1, base + registers[i].bitsize,
                   DictSet(qubit_regs, registers[i].name,
                           PySlice(qubits, base, base + registers[i].bitsize)))
\* Variant of split_qubits: base is assigned the register's bitsize instead of advanced by it.
RECURSIVE SplitLoop_ResetBase(_, _, _, _, _)
SplitLoop_ResetBase(registers, qubits, i, base, qubit_regs) ==
    IF i > Len(registers) THEN qubit_regs
    ELSE SplitLoop_ResetBase(registers, qubits, i + 1, registers[i].bitsize,
                             DictSet(qubit_regs, registers[i].name,
                                     PySlice(qubits, base, base + registers[i].bitsize)))
split_qubits_ResetBase(obj, qubits) ==
    SplitLoop_ResetBase(obj._registers, qubits, 1, 0, EmptyDict)
\* Variant of split_qubits: a register whose block is not wholly present gets nothing.
RECURSIVE SplitLoop_WholeOnly(_, _, _, _, _)
SplitLoop_WholeOnly(registers, qubits, i, base, qubit_regs) ==
    IF i > Len(registers) THEN qubit_regs
    ELSE SplitLoop_WholeOnly(registers, qubits, i + 1, base + registers[i].bitsize,
                             DictSet(qubit_regs, registers[i].name,
                                     IF base + registers[i].bitsize <= Len(qubits)
                                     THEN PySlice(qubits, base, base + registers[i].bitsize)
                                     ELSE <<>>))
split_qubits_WholeOnly(obj, qubits) ==
    SplitLoop_WholeOnly(obj._registers, qubits, 1, 0, EmptyDict)
split_qubits(obj, qubits) == SplitLoop(obj._registers, qubits, 1, 0, EmptyDict)

\* Registers.merge_qubits: [err, ret]; err = "AssertionError" when an assert fails.
Normalize(v) == IF IsQid(v) THEN <<v.qid>> ELSE v.items
RECURSIVE MergeLoop(_, _, _, _)
MergeLoop(registers, qubit_regs, i, acc) ==
    IF i > Len(registers) THEN [err |-> "", ret |-> acc]
    ELSE IF registers[i].name \notin DOMAIN qubit_regs
         THEN [err |-> "AssertionError", ret |-> <<>>]
    ELSE LET qubits == Normalize(qubit_regs[registers[i].name])
         IN  IF Len(qubits) # registers[i].bitsize
             THEN [err |-> "AssertionError", ret |-> <<>>]
             ELSE MergeLoop(registers, qubit_regs, i + 1, acc \o qubits)
\* Variant of merge_qubits: the length assertion is left out.
RECURSIVE MergeLoop_NoLengthCheck(_, _, _, _)
MergeLoop_NoLengthCheck(registers, qubit_regs, i, acc) ==
    IF i > Len(registers) THEN [err |-> "", ret |-> acc]
    ELSE IF registers[i].name \notin DOMAIN qubit_regs
         THEN [err |-> "AssertionError", ret |-> <<>>]
    ELSE MergeLoop_NoLengthCheck(registers, qubit_regs, i + 1,
                                 acc \o Normalize(qubit_regs[registers[i].name]))
merge_qubits_NoLengthCheck(obj, qubit_regs) ==
    MergeLoop_NoLengthCheck(obj._registers, qubit_regs, 1, <<>>)
\* Variant of merge_qubits: each entry is put in front of what was collected (ret = qubits + ret).
RECURSIVE MergeLoop_Prepend(_, _, _, _)
MergeLoop_Prepend(registers, qubit_regs, i, acc) ==
    IF i > Len(registers) THEN [err |-> "", ret |-> acc]
    ELSE IF registers[i].name \notin DOMAIN qubit_regs
         THEN [err |-> "AssertionError", ret |-> <<>>]
    ELSE LET qubits == Normalize(qubit_regs[registers[i].name])
         IN  IF Len(qubits) # registers[i].bitsize
             THEN [err |-> "AssertionError", ret |-> <<>>]
             ELSE MergeLoop_Prepend(registers, qubit_regs, i + 1, qubits \o acc)
merge_qubits_Prepend(obj, qubit_regs) ==
    MergeLoop_Prepend(obj._registers, qubit_regs, 1, <<>>)
merge_qubits(obj, qubit_regs) == MergeLoop(obj._registers, qubit_regs, 1, <<>>)

\* cirq.NamedQubit(name): a handle that equals another exactly when the names agree.
NamedQubit(name) == [name |-> name]
\* cirq.NamedQubit.range(n, prefix=name): the handles name0 .. name(n-1).
NamedQubitRange(n, prefix) == [i \in 1..n |-> NamedQubit(prefix \o Str(i - 1))]

\* Registers.get_named_qubits
qubits_for_reg(name, bitsize) ==
    IF bitsize = 1 THEN <<NamedQubit(name)>> ELSE NamedQubitRange(bitsize, name)
RECURSIVE NamedLoop(_, _, _)
NamedLoop(registers, i, d) ==
    IF i > Len(registers) THEN d
    ELSE NamedLoop(registers, i + 1,
                   DictSet(d, registers[i].name,
                           qubits_for_reg(registers[i].name, registers[i].bitsize)))
get_named_qubits(obj) == NamedLoop(obj._registers, 1, EmptyDict)

\* ---------------------------------------------------- GateWithRegisters
\* cirq.Gate.on(*qubits): the operation bound to the flat operand sequence.
GateOn(qubits) == [qubits |-> qubits]

\* GateWithRegisters.on_registers: [err, ret].
on_registers(obj, qubit_regs) ==
    LET m == merge_qubits(obj, qubit_regs)
    IN  IF m.err # "" THEN m ELSE [err |-> "", ret |-> GateOn(m.ret)]

\* Variant of decompose_with_context: the flat sequence is split by the registers
\* in reverse order.
decompose_with_context_Reversed(obj, qubits) ==
    SplitLoop(Reverse(obj._registers), qubits, 1, 0, EmptyDict)
\* GateWithRegisters._decompose_with_context_: the keyword arguments handed to
\* decompose_from_registers besides the context.
decompose_with_context(obj, qubits) == split_qubits(obj, qubits)

\* ---------------------------------------------------- SelectionRegister
RECURSIVE Pow2(_)
Pow2(n) == IF n = 0 THEN 1 ELSE 2 * Pow2(n - 1)

\* Variant of validate_iteration_length: the upper bound is exclusive.
validate_iteration_length_Exclusive(bitsize, value) == 0 <= value /\ value < Pow2(bitsize)
\* validate_iteration_length: TRUE when no ValueError is raised.
validate_iteration_length(bitsize, value) == 0 <= value /\ value <= Pow2(bitsize)

SelectionRegister(name, bitsize, iteration_length) ==
    [name |-> name, bitsize |-> bitsize, iteration_length |-> iteration_length]

\* --------------------------------------------------- SelectionRegisters
\* An iterable argument: a sequence can be iterated again, an iterator only once.
FirstPass(it) == it.items
SecondPass(it) == IF it.kind = "iterator" THEN <<>> ELSE it.items

\* np.multiply.accumulate(s): running products. The products of the bounded
\* iteration lengths stay far below 2^63, so int64 arithmetic is exact here.
RECURSIVE Accumulate(_, _, _)
Accumulate(s, i, acc) ==
    IF i > Len(s) THEN acc
    ELSE Accumulate(s, i + 1, Append(acc, IF i = 1 THEN s[1] ELSE acc[i - 1] * s[i]))
SuffixProd(iteration_lengths) ==
    Append(Reverse(Accumulate(Reverse(iteration_lengths), 1, <<>>)), 1)

\* SelectionRegisters.__init__
SelectionRegistersInit(it) ==
    LET base == RegistersInit(FirstPass(it))
        second == SecondPass(it)
        lengths == [i \in 1..Len(second) |-> second[i].iteration_length]
    IN  IF ~base.ok THEN NoObject
        ELSE [base EXCEPT !.cls = "SelectionRegisters", !.iteration_lengths = lengths,
                          !._suffix_prod = SuffixProd(lengths)]

\* SelectionRegisters.to_flat_idx: [err, ret].
RECURSIVE FlatSum(_, _, _, _)
FlatSum(suffix_prod, selection_vals, i, acc) ==
    IF i > Len(selection_vals) THEN [err |-> "", ret |-> acc]
    ELSE IF i + 1 > Len(suffix_prod) THEN [err |-> "IndexError", ret |-> 0]
    ELSE FlatSum(suffix_prod, selection_vals, i + 1,
                 acc + selection_vals[i] * suffix_prod[i + 1])
to_flat_idx(obj, selection_vals) ==
    IF Len(selection_vals) # Len(obj._registers)
    THEN [err |-> "AssertionError", ret |-> 0]
    ELSE FlatSum(obj._suffix_prod, selection_vals, 1, 0)

\* SelectionRegisters.total_iteration_size
RECURSIVE Product(_, _)
Product(s, i) == IF i > Len(s) THEN 1 ELSE s[i] * Product(s, i + 1)
total_iteration_size(obj) == Product(obj.iteration_lengths, 1)

\* SelectionRegisters.build(**registers): each item is (name, v), v a plain size
\* [tuple |-> FALSE, size] or a pair [tuple |-> TRUE, size, length].
reg_dict(kwargs) ==
    [i \in 1..Len(kwargs) |->
        <<kwargs[i][1], IF kwargs[i][2].tuple
                        THEN <<kwargs[i][2].size, kwargs[i][2].length>>
                        ELSE <<kwargs[i][2].size, Pow2(kwargs[i][2].size)>> >>]
BuildSelection(kwargs) ==
    LET d == reg_dict(kwargs)
    IN  [i \in 1..Len(d) |-> SelectionRegister(d[i][1], d[i][2][1], d[i][2][2])]

\* ------------------------------------------------------- caller inputs
RECURSIVE SeqsUpTo(_, _)
SeqsUpTo(S, n) == IF n = 0 THEN {<<>>} ELSE SeqsUpTo(S, n - 1) \cup [1..n -> S]

IsInjective(s) == \A i, j \in DOMAIN s : s[i] = s[j] => i = j

Qids == {NamedQubit(n) : n \in QidNames}
RegisterSet == {Register(n, b) : n \in RegNames, b \in 0..MaxBitsize}
RegisterSeqs == SeqsUpTo(RegisterSet, MaxRegs)
\* **kwargs of build: items in the order given; a keyword cannot repeat.
BuildNames == {s \in SeqsUpTo(RegNames, MaxRegs) : IsInjective(s)}
Items(ns, vs) == [i \in DOMAIN ns |-> <<ns[i], vs[i]>>]
QubitSeqs == SeqsUpTo(Qids, MaxQubits)
KwValues == {PyQid(q) : q \in Qids} \cup {PySeq(s) : s \in SeqsUpTo(Qids, MaxKwLen)}
QubitKwargs == UNION {[D -> KwValues] : D \in SUBSET RegNames}

NoOrigin == [from |-> "", args |-> <<>>]
NoLoop == [active |-> FALSE, done |-> FALSE, idx |-> <<>>, out |-> <<>>, err |-> ""]

\* ------------------------------------------------------------- actions
\* The collection is immutable, so a call on it starts from the state its
\* construction left: what one call returned does not influence the next.
NotBuilt == ~self.ok /\ call = ""
Fresh == self.ok /\ call \in {"__init__", "build"}
Init ==
    /\ self = NoObject
    /\ call = "" /\ args = <<>> /\ ret = <<>> /\ error = ""
    /\ origin = NoOrigin
    /\ loop = NoLoop

\* Registers(registers)
Construct ==
    /\ NotBuilt
    /\ \E registers \in RegisterSeqs :
        LET it == [kind |-> "sequence", items |-> registers]
        IN  /\ self' = RegistersInit(FirstPass(it))
            /\ args' = it
    /\ call' = "__init__" /\ ret' = <<>>
    /\ error' = IF self'.ok THEN "" ELSE "ValueError"
    /\ origin' = NoOrigin /\ UNCHANGED loop

\* Registers.build(**kwargs)
Build ==
    /\ NotBuilt
    /\ \E ns \in BuildNames : \E vs \in [DOMAIN ns -> 0..MaxBitsize] :
        LET kwargs == Items(ns, vs)
        IN  /\ self' = RegistersInit(BuildRegisters(kwargs))
            /\ args' = kwargs
    /\ call' = "build" /\ ret' = <<>>
    /\ error' = IF self'.ok THEN "" ELSE "ValueError"
    /\ origin' = NoOrigin /\ UNCHANGED loop

\* registers[start:stop]: the returned collection replaces the one held.
GetItemSlice ==
    /\ Fresh /\ self.cls = "Registers"
    /\ \E start, stop \in 0..MaxRegs :
        LET new == RegistersInit(PySlice(self._registers, start, stop))
        IN  /\ self' = IF new.ok THEN new ELSE self
            /\ error' = IF new.ok THEN "" ELSE "ValueError"
            /\ args' = [of |-> self._registers, start |-> start, stop |-> stop]
    /\ call' = "__getitem__" /\ ret' = <<>>
    /\ origin' = NoOrigin /\ UNCHANGED loop

SplitQubits ==
    /\ Fresh /\ self.cls = "Registers"
    /\ \E qubits \in QubitSeqs :
        /\ args' = qubits
        /\ ret' = split_qubits(self, qubits)
    /\ call' = "split_qubits" /\ error' = ""
    /\ origin' = NoOrigin /\ UNCHANGED <<self, loop>>

MergeQubits ==
    /\ Fresh /\ self.cls = "Registers"
    /\ \E qubit_regs \in QubitKwargs :
        LET m == merge_qubits(self, qubit_regs)
        IN  args' = qubit_regs /\ ret' = m.ret /\ error' = m.err
    /\ call' = "merge_qubits"
    /\ origin' = NoOrigin /\ UNCHANGED <<self, loop>>

\* merge_qubits(**split_qubits(handles)): the mapping just returned is passed back.
MergeSplit ==
    /\ self.ok /\ call = "split_qubits"
    /\ LET qubit_regs == [n \in DOMAIN ret |-> PySeq(ret[n])]
           m == merge_qubits(self, qubit_regs)
       IN  args' = qubit_regs /\ ret' = m.ret /\ error' = m.err
    /\ call' = "merge_qubits"
    /\ origin' = [from |-> "split_qubits", args |-> args]
    /\ UNCHANGED <<self, loop>>

GetNamedQubits ==
    /\ Fresh /\ self.cls = "Registers"
    /\ call' = "get_named_qubits" /\ args' = <<>>
    /\ ret' = get_named_qubits(self) /\ error' = ""
    /\ origin' = NoOrigin /\ UNCHANGED <<self, loop>>

OnRegisters ==
    /\ Fresh /\ self.cls = "Registers"
    /\ \E qubit_regs \in QubitKwargs :
        LET m == on_registers(self, qubit_regs)
        IN  args' = qubit_regs /\ ret' = m.ret /\ error' = m.err
    /\ call' = "on_registers"
    /\ origin' = NoOrigin /\ UNCHANGED <<self, loop>>

\* The framework decomposes the operation on_registers returned.
DecomposeOperation ==
    /\ self.ok /\ call = "on_registers" /\ error = ""
    /\ call' = "_decompose_with_context_" /\ args' = ret.qubits
    /\ ret' = decompose_with_context(self, ret.qubits) /\ error' = ""
    /\ origin' = [from |-> "on_registers", args |-> args]
    /\ UNCHANGED <<self, loop>>

\* _decompose_with_context_ called with a flat sequence directly.
Decompose ==
    /\ Fresh /\ self.cls = "Registers"
    /\ \E qubits \in QubitSeqs :
        /\ args' = qubits
        /\ ret' = decompose_with_context(self, qubits)
    /\ call' = "_decompose_with_context_" /\ error' = ""
    /\ origin' = NoOrigin /\ UNCHANGED <<self, loop>>

Next ==
    \/ Construct
    \/ Build
    \/ GetItemSlice
    \/ SplitQubits
    \/ MergeQubits
    \/ MergeSplit
    \/ GetNamedQubits
    \/ OnRegisters
    \/ DecomposeOperation
    \/ Decompose

Spec == Init /\ [][Next]_vars

\* --------------------------------- SelectionRegisters: inputs and actions
SelNames == {"p", "q", "r"}
\* A collection holds at most one register per name: sequences up to this length
\* give every collection over SelNames, and the ones a repeated name rejects.
MaxSelRegs == Cardinality(SelNames)
IterationLengths == (-1)..(Pow2(MaxSelBitsize) + 1)
\* The SelectionRegister objects that exist: those whose validator accepted them.
SelectionRegisterSet ==
    {r \in {SelectionRegister(n, b, l) : n \in SelNames, b \in 0..MaxSelBitsize,
                                         l \in IterationLengths} :
        validate_iteration_length(r.bitsize, r.iteration_length)}
IterableKinds == {"sequence", "iterator"}
SelectionRegisterSeqs == SeqsUpTo(SelectionRegisterSet, MaxSelRegs)
BuildValues ==
    {[tuple |-> FALSE, size |-> b] : b \in 0..MaxSelBitsize}
    \cup {[tuple |-> TRUE, size |-> b, length |-> l] : b \in 0..MaxSelBitsize, l \in IterationLengths}
SelBuildNames == {s \in SeqsUpTo(SelNames, MaxSelRegs) : IsInjective(s)}
SelectionVals == SeqsUpTo(0..MaxVal, MaxSelRegs)

\* SelectionRegister(name, bitsize, iteration_length)
NewSelectionRegister ==
    /\ NotBuilt
    /\ \E n \in SelNames, b \in 0..MaxSelBitsize, l \in IterationLengths :
        /\ args' = SelectionRegister(n, b, l)
        /\ IF validate_iteration_length(b, l)
           THEN ret' = SelectionRegister(n, b, l) /\ error' = ""
           ELSE ret' = <<>> /\ error' = "ValueError"
    /\ call' = "SelectionRegister"
    /\ origin' = NoOrigin /\ UNCHANGED <<self, loop>>

\* SelectionRegisters(registers)
SelConstruct ==
    /\ NotBuilt
    /\ \E k \in IterableKinds, rs \in SelectionRegisterSeqs :
        LET it == [kind |-> k, items |-> rs]
        IN  /\ self' = SelectionRegistersInit(it)
            /\ args' = it
    /\ call' = "__init__" /\ ret' = <<>>
    /\ error' = IF self'.ok THEN "" ELSE "ValueError"
    /\ origin' = NoOrigin /\ UNCHANGED loop

\* SelectionRegisters.build(**kwargs): a register the validator rejects raises
\* before the collection is made.
SelBuild ==
    /\ NotBuilt
    /\ \E ns \in SelBuildNames : \E vs \in [DOMAIN ns -> BuildValues] :
        LET kwargs == Items(ns, vs)
            regs == BuildSelection(kwargs)
            valid == \A i \in DOMAIN regs :
                        validate_iteration_length(regs[i].bitsize, regs[i].iteration_length)
        IN  /\ self' = IF valid
                       THEN SelectionRegistersInit([kind |-> "sequence", items |-> regs])
                       ELSE NoObject
            /\ args' = kwargs
    /\ call' = "build" /\ ret' = <<>>
    /\ error' = IF self'.ok THEN "" ELSE "ValueError"
    /\ origin' = NoOrigin /\ UNCHANGED loop

SelFresh == Fresh /\ self.cls = "SelectionRegisters"

\* selection[start:stop]
SelGetItemSlice ==
    /\ SelFresh
    /\ \E start, stop \in 0..MaxSelRegs :
        LET new == SelectionRegistersInit(
                       [kind |-> "sequence", items |-> PySlice(self._registers, start, stop)])
        IN  /\ self' = IF new.ok THEN new ELSE self
            /\ error' = IF new.ok THEN "" ELSE "ValueError"
            /\ args' = [of |-> self._registers, start |-> start, stop |-> stop]
    /\ call' = "__getitem__" /\ ret' = <<>>
    /\ origin' = NoOrigin /\ UNCHANGED loop

ToFlatIdx ==
    /\ SelFresh
    /\ \E selection_vals \in SelectionVals :
        LET r == to_flat_idx(self, selection_vals)
        IN  args' = selection_vals /\ ret' = r.ret /\ error' = r.err
    /\ call' = "to_flat_idx"
    /\ origin' = NoOrigin /\ UNCHANGED <<self, loop>>

TotalIterationSize ==
    /\ SelFresh
    /\ call' = "total_iteration_size" /\ args' = <<>>
    /\ ret' = total_iteration_size(self) /\ error' = ""
    /\ origin' = NoOrigin /\ UNCHANGED <<self, loop>>

\* The caller's nested loops, for i0 in range(L0): ... for in-1 in range(Ln-1),
\* over self.iteration_lengths, calling to_flat_idx(i0, ..., in-1) in the body.
\* idx is the tuple the next body execution sees.
Zeros(n) == [i \in 1..n |-> 0]
\* The tuple after idx in lexicographic order; done when idx was the last one.
RECURSIVE Advance(_, _, _)
Advance(idx, lengths, i) ==
    IF i = 0 THEN [done |-> TRUE, idx |-> idx]
    ELSE IF idx[i] + 1 < lengths[i]
         THEN [done |-> FALSE, idx |-> [idx EXCEPT ![i] = idx[i] + 1]]
         ELSE Advance([idx EXCEPT ![i] = 0], lengths, i - 1)

LoopStart ==
    /\ SelFresh
    /\ LET lengths == self.iteration_lengths
           empty == \E i \in DOMAIN lengths : lengths[i] <= 0
       IN  loop' = [active |-> ~empty, done |-> empty, idx |-> Zeros(Len(lengths)),
                    out |-> <<>>, err |-> ""]
    /\ call' = "loop" /\ args' = <<>> /\ ret' = <<>> /\ error' = ""
    /\ origin' = NoOrigin /\ UNCHANGED self

LoopStep ==
    /\ call = "loop" /\ loop.active
    /\ LET r == to_flat_idx(self, loop.idx)
           nxt == Advance(loop.idx, self.iteration_lengths, Len(loop.idx))
       IN  loop' = IF r.err # ""
                   THEN [loop EXCEPT !.active = FALSE, !.err = r.err]
                   ELSE [active |-> ~nxt.done, done |-> nxt.done, idx |-> nxt.idx,
                         out |-> Append(loop.out, r.ret), err |-> ""]
    /\ UNCHANGED <<self, call, args, ret, error, origin>>

SelNext ==
    \/ NewSelectionRegister
    \/ SelConstruct
    \/ SelBuild
    \/ SelGetItemSlice
    \/ ToFlatIdx
    \/ TotalIterationSize
    \/ LoopStart
    \/ LoopStep

SelSpec == Init /\ [][SelNext]_vars

\* Construction alone, of both kinds of collection.
CtorNext ==
    \/ Construct
    \/ Build
    \/ GetItemSlice
    \/ SelConstruct
    \/ SelBuild
    \/ SelGetItemSlice

CtorSpec == Init /\ [][CtorNext]_vars

\* ====================================================== claims (helpers)
NameAt(k) == self._registers[k].name
BitsizeAt(k) == self._registers[k].bitsize
RegIndices == DOMAIN self._registers
RegNameSet == {NameAt(k) : k \in RegIndices}
\* Sum of the bitsizes of the registers declared before the k-th.
RECURSIVE BaseOf(_)
BaseOf(k) == IF k <= 1 THEN 0 ELSE BaseOf(k - 1) + BitsizeAt(k - 1)
TotalBits == BaseOf(Len(self._registers) + 1)
\* Flat positions (1-based) the k-th register owns.
Block(k) == (BaseOf(k) + 1)..(BaseOf(k) + BitsizeAt(k))
NamesDistinct(rs) == \A i, j \in DOMAIN rs : rs[i].name = rs[j].name => i = j
\* A supplied entry read as a sequence: a bare handle is a length-1 sequence.
Supplied(v) == IF v.kind = "Qid" THEN <<v.qid>> ELSE v.items
IsSplit == call \in {"split_qubits", "_decompose_with_context_"}

\* ------------------------------------------------------------------ C1
\* C1: the nested loops over the iteration lengths, calling to_flat_idx on each
\* tuple in lexicographic order, produce exactly 0, 1, ..., total_iteration_size-1
\* in that order: every call succeeds, the k-th call returns k-1, and the loop
\* ends after total_iteration_size calls.
C1_EnumerationIsRange ==
    call = "loop" =>
        /\ loop.err = ""
        /\ \A k \in DOMAIN loop.out : loop.out[k] = k - 1
        /\ Len(loop.out) <= total_iteration_size(self)
        /\ loop.done => Len(loop.out) = total_iteration_size(self)

\* ------------------------------------------------------------------ C2
RegLengths == [k \in RegIndices |-> self._registers[k].iteration_length]
\* product(iteration_lengths[i:]) for a 1-based i; 1 past the end.
RECURSIVE ClaimSuffix(_)
ClaimSuffix(i) == IF i > Len(RegLengths) THEN 1 ELSE RegLengths[i] * ClaimSuffix(i + 1)
RECURSIVE ClaimFlatSum(_, _)
ClaimFlatSum(vals, i) ==
    IF i > Len(vals) THEN 0 ELSE vals[i] * ClaimSuffix(i + 1) + ClaimFlatSum(vals, i + 1)
\* C2: to_flat_idx on n values for n registers returns sum(values[i] * suffix[i+1]),
\* suffix[i] the product of the iteration lengths from i on (x*M + y for lengths
\* (N, M)); with any other number of values it fails.
C2_RowMajor ==
    call = "to_flat_idx" =>
        IF Len(args) = Len(self._registers)
        THEN /\ error = ""
             /\ ret = ClaimFlatSum(args, 1)
             /\ Len(args) = 2 => ret = args[1] * RegLengths[2] + args[2]
        ELSE error # ""

\* ------------------------------------------------------------------ C3
\* C3: for a handle sequence as long as the collection's bitsize,
\* merge_qubits(**split_qubits(handles)) succeeds and returns handles.
C3_RoundTrip ==
    (call = "merge_qubits" /\ origin.from = "split_qubits"
        /\ Len(origin.args) = Bitsize(self)) =>
        error = "" /\ ret = origin.args
C3_Witness ==
    /\ call = "merge_qubits" /\ origin.from = "split_qubits"
    /\ Len(origin.args) = Bitsize(self)
    /\ Len(self._registers) = 3 /\ \A k \in RegIndices : BitsizeAt(k) >= 1
    /\ \E i, j \in DOMAIN origin.args : origin.args[i] # origin.args[j]

\* ------------------------------------------------------------------ C4
FromOnRegisters == call = "_decompose_with_context_" /\ origin.from = "on_registers"
\* C4 as stated: the split of the bound operation's operands has the same set of
\* names as the arguments on_registers accepted, each with the sequence supplied.
C4_SamePartition ==
    FromOnRegisters =>
        /\ DOMAIN ret = DOMAIN origin.args
        /\ \A n \in DOMAIN origin.args : ret[n] = Supplied(origin.args[n])
\* C4 amended: the split has exactly the declared register names, each with the
\* sequence supplied under that name; entries supplied under other names are
\* accepted by on_registers and do not come back.
C4_DeclaredPartition ==
    FromOnRegisters =>
        /\ DOMAIN ret = RegNameSet
        /\ RegNameSet \subseteq DOMAIN origin.args
        /\ \A n \in RegNameSet : ret[n] = Supplied(origin.args[n])
C4_Witness ==
    /\ FromOnRegisters
    /\ Len(self._registers) = 2 /\ \A k \in RegIndices : BitsizeAt(k) >= 1
    /\ \E n \in RegNameSet : origin.args[n].kind = "Qid"
    /\ \E n \in RegNameSet : origin.args[n].kind = "Sequence"
    /\ DOMAIN origin.args # RegNameSet

\* ------------------------------------------------------------------ C5
\* C5: for a handle sequence as long as the bitsize, split_qubits (and so the
\* keyword arguments _decompose_with_context_ passes on) has one entry per
\* register name, the k-th register getting handles[base_k : base_k + bitsize_k],
\* base_k the sum of the earlier bitsizes; the blocks do not overlap and cover
\* every handle.
C5_ContiguousPartition ==
    (IsSplit /\ Len(args) = Bitsize(self)) =>
        /\ DOMAIN ret = RegNameSet
        /\ \A k \in RegIndices :
            /\ Len(ret[NameAt(k)]) = BitsizeAt(k)
            /\ \A i \in 1..BitsizeAt(k) : ret[NameAt(k)][i] = args[BaseOf(k) + i]
        /\ \A j, k \in RegIndices : j # k => Block(j) \cap Block(k) = {}
        /\ UNION {Block(k) : k \in RegIndices} = DOMAIN args
C5_Witness ==
    /\ call = "_decompose_with_context_" /\ Len(args) = Bitsize(self)
    /\ Len(self._registers) = 3
    /\ BitsizeAt(1) = 1 /\ BitsizeAt(2) = 2 /\ BitsizeAt(3) = 2
    /\ ret[NameAt(2)] # ret[NameAt(3)]

\* ------------------------------------------------------------------ C6
IsSelection == self.cls = "SelectionRegisters"
\* C6: every collection that exists has pairwise-distinct names in the order the
\* registers were supplied (directly, through build, or through a slice, which is
\* a contiguous run of the sliced collection); a sequence with a repeated name
\* raises and leaves no collection.
C6_UniqueOrdered ==
    /\ self.ok => NamesDistinct(self._registers)
    /\ call = "__init__" =>
        LET given == args.items
        IN  /\ error = "" <=> NamesDistinct(given)
            /\ error = "" => self.ok /\ self._registers = given
            /\ error # "" => error = "ValueError" /\ ~self.ok
    /\ (call = "build" /\ self.ok) =>
        /\ Len(self._registers) = Len(args)
        /\ \A k \in RegIndices : NameAt(k) = args[k][1]
    /\ call = "__getitem__" =>
        /\ self.ok /\ error = ""
        /\ LET lo == IF args.start < Len(args.of) THEN args.start ELSE Len(args.of)
               hi == IF args.stop < Len(args.of) THEN args.stop ELSE Len(args.of)
           IN  /\ Len(self._registers) = IF hi > lo THEN hi - lo ELSE 0
               /\ \A k \in RegIndices : self._registers[k] = args.of[lo + k]
C6_Witness ==
    call = "__init__" /\ error = "ValueError" /\ ~self.ok

\* ------------------------------------------------------------------ C7
MergeGood ==
    \A k \in RegIndices :
        /\ NameAt(k) \in DOMAIN args
        /\ Len(Supplied(args[NameAt(k)])) = BitsizeAt(k)
\* C7: merge_qubits succeeds exactly when every register has an entry of bitsize
\* handles (a bare handle counting as one); it then returns the entries
\* concatenated in declaration order, bitsize handles in all; otherwise it raises
\* and returns nothing.
C7_MergeShape ==
    call = "merge_qubits" =>
        /\ error = "" <=> MergeGood
        /\ error = "" =>
            /\ Len(ret) = TotalBits /\ Len(ret) = Bitsize(self)
            /\ \A k \in RegIndices : \A i \in 1..BitsizeAt(k) :
                ret[BaseOf(k) + i] = Supplied(args[NameAt(k)])[i]
        /\ error # "" => error = "AssertionError" /\ ret = <<>>
C7_Witness ==
    /\ call = "merge_qubits" /\ error = "" /\ origin.from = ""
    /\ Len(self._registers) = 3
    /\ \E n \in RegNameSet : args[n].kind = "Qid"
    /\ \E n \in RegNameSet : args[n].kind = "Sequence" /\ Len(args[n].items) = 2

\* ------------------------------------------------------------------ C8
InBound(r) == 0 <= r.iteration_length /\ r.iteration_length <= 2^(r.bitsize)
BuildItem(v) ==
    [bitsize |-> v.size, iteration_length |-> IF v.tuple THEN v.length ELSE 2^(v.size)]
\* C8: SelectionRegister(...) succeeds exactly when 0 <= iteration_length <=
\* 2^bitsize; every register of a SelectionRegisters satisfies the bound; build
\* gives a plain size the length 2^size and a (size, length) pair its length.
C8_IterationLengthBound ==
    /\ call = "SelectionRegister" =>
        /\ error = "" <=> InBound(args)
        /\ error = "" => ret = args
    /\ (self.ok /\ IsSelection) => \A k \in RegIndices : InBound(self._registers[k])
    /\ call = "build" =>
        /\ self.ok <=> \A i \in DOMAIN args : InBound(BuildItem(args[i][2]))
        /\ self.ok => \A k \in RegIndices :
            /\ NameAt(k) = args[k][1]
            /\ BitsizeAt(k) = BuildItem(args[k][2]).bitsize
            /\ self._registers[k].iteration_length = BuildItem(args[k][2]).iteration_length
C8_Witness ==
    /\ call = "build" /\ self.ok /\ IsSelection
    /\ \E i \in DOMAIN args : ~args[i][2].tuple /\ args[i][2].size = 1
    /\ \E i \in DOMAIN args : args[i][2].tuple /\ args[i][2].length = 0

\* ------------------------------------------------------------------ C9
\* C9: get_named_qubits returns one entry per register with bitsize handles, named
\* after the register (bitsize 1) or by the register name and an index; handles
\* are distinct within a register and no handle is in two registers' groups.
C9_NamedQubitsUnique ==
    call = "get_named_qubits" =>
        /\ DOMAIN ret = RegNameSet
        /\ \A k \in RegIndices :
            /\ Len(ret[NameAt(k)]) = BitsizeAt(k)
            /\ BitsizeAt(k) = 1 => ret[NameAt(k)][1].name = NameAt(k)
            /\ BitsizeAt(k) # 1 => \A i \in 1..BitsizeAt(k) :
                   ret[NameAt(k)][i].name = NameAt(k) \o Str(i - 1)
            /\ IsInjective(ret[NameAt(k)])
        /\ \A j, k \in RegIndices : j # k =>
            {ret[NameAt(j)][i] : i \in DOMAIN ret[NameAt(j)]}
                \cap {ret[NameAt(k)][i] : i \in DOMAIN ret[NameAt(k)]} = {}

\* ----------------------------------------------------------------- C10
\* C10: on a handle sequence shorter than the bitsize split_qubits does not fail:
\* every register has an entry, holding the handles of its block that exist
\* (all of them for leading registers, fewer or none for trailing ones), so
\* _decompose_with_context_ passes on an entry whose length is not its bitsize.
C10_SilentTruncation ==
    (IsSplit /\ Len(args) < Bitsize(self)) =>
        /\ error = ""
        /\ DOMAIN ret = RegNameSet
        /\ \A k \in RegIndices :
            LET have == Block(k) \cap DOMAIN args
            IN  /\ Len(ret[NameAt(k)]) = Cardinality(have)
                /\ \A i \in 1..Cardinality(have) : ret[NameAt(k)][i] = args[BaseOf(k) + i]
                /\ BaseOf(k) + BitsizeAt(k) <= Len(args) => Len(ret[NameAt(k)]) = BitsizeAt(k)
        /\ \E k \in RegIndices : Len(ret[NameAt(k)]) < BitsizeAt(k)
C10_Witness ==
    /\ call = "_decompose_with_context_" /\ Len(args) < Bitsize(self)
    /\ Len(self._registers) = 3
    /\ Len(ret[NameAt(1)]) = 2 /\ BitsizeAt(1) = 2
    /\ Len(ret[NameAt(2)]) = 1 /\ BitsizeAt(2) = 2
    /\ Len(ret[NameAt(3)]) = 0 /\ BitsizeAt(3) = 1

====
